---- MODULE Spec2Model ----
(***************************************************************************)
(* Model of install_stitchkit.py (StitchKitInstaller): the filesystem      *)
(* under the home directory, the installer's two flags, and run() as a     *)
(* sequence of steps.  Configuration texts are sequences of tokens, so     *)
(* that the credential check is a real substring search.                   *)
(***************************************************************************)
EXTENDS Integers, Sequences, FiniteSets, TLC

VARIABLES
    pc,                   \* position in main()/run(), or in a unit harness
    inst,                 \* ~/StitchKit: [exists, env, req, main]
    backups,              \* ~/StitchKit.backup-<name>, for each name
    now,                  \* the wall clock, in seconds
    env_restored,         \* self.env_restored
    env_has_credentials,  \* self.env_has_credentials
    rc_alias,             \* the shell rc file holds 'alias stitchkit='
    events,               \* what the current run did, printed and asked
    inst0,                \* ~/StitchKit as it was when the current run began
    backups0,             \* the backups as they were when the current run began
    runs,                 \* number of installer processes started
    hist,                 \* a summary of each finished run, oldest first
    exitcode,             \* sys.exit code of the current run, or "none"
    arg,                  \* unit harness: the input of the function under check
    ret                   \* unit harness: its result

vars == <<pc, inst, backups, now, env_restored, env_has_credentials, rc_alias,
          events, inst0, backups0, runs, hist, exitcode, arg, ret>>

----------------------------------------------------------------------------
(* Bounds *)

MaxLines == 4
MaxSec == 2
MaxInitBackups == 1
Radix == 2

----------------------------------------------------------------------------
(* Configuration text *)

\* A file: whether it exists, its content as a sequence of tokens, and
\* whether open() and read() on it succeed.
NoFile == [exists |-> FALSE, text |-> <<>>, readable |-> FALSE]
File(text) == [exists |-> TRUE, text |-> text, readable |-> TRUE]
Unreadable(text) == [exists |-> TRUE, text |-> text, readable |-> FALSE]

Fields == {"CANVAS_API_KEY", "HONORLOCK_CONSUMER_KEY", "HONORLOCK_SHARED_SECRET"}

Placeholder(f) ==
    CASE f = "CANVAS_API_KEY" -> "your_canvas_api_key_here"
      [] f = "HONORLOCK_CONSUMER_KEY" -> "your_honorlock_consumer_key_here"
      [] f = "HONORLOCK_SHARED_SECRET" -> "your_honorlock_shared_secret_here"
      [] OTHER -> "your_canvas_catalog_token_here"

\* A line of a configuration file, before it is written out.
\*   cmt: the line starts with '#';  eq: the key is followed by '=';
\*   val: what follows the '=' (or the key, in a line of prose).
OptionalKey == "CANVAS_CAT_API_TOKEN"
RealValue == "value"

\* A required key set to a value or still to its placeholder, commented out or not.
AssignLines ==
    {[cmt |-> c, key |-> k, eq |-> TRUE, val |-> v] :
        c \in BOOLEAN, k \in Fields, v \in {RealValue}} \cup
    {[cmt |-> c, key |-> k, eq |-> TRUE, val |-> Placeholder(k)] :
        c \in BOOLEAN, k \in Fields}
ProseLines == [cmt : {TRUE}, key : Fields, eq : {FALSE}, val : {RealValue}]
OptionalLines == [cmt : {FALSE}, key : {OptionalKey}, eq : {TRUE},
                  val : {Placeholder(OptionalKey)}]
Lines == AssignLines \cup ProseLines \cup OptionalLines

LineText(l) ==
    (IF l.cmt THEN <<"#">> ELSE <<>>) \o <<l.key>>
        \o (IF l.eq THEN <<"=">> ELSE <<>>) \o <<l.val, "\n">>

RECURSIVE Concat(_)
Concat(ls) == IF ls = <<>> THEN <<>> ELSE LineText(Head(ls)) \o Concat(Tail(ls))

Line(c, k, v) == [cmt |-> c, key |-> k, eq |-> TRUE, val |-> v]
Prose(k) == [cmt |-> TRUE, key |-> k, eq |-> FALSE, val |-> RealValue]

\* The text create_basic_env writes: every required key set to its placeholder,
\* an optional key, and the closing notes that name the required keys in prose.
Template ==
    Concat(<< Line(FALSE, "CANVAS_API_KEY", Placeholder("CANVAS_API_KEY")),
              Line(FALSE, OptionalKey, Placeholder(OptionalKey)),
              Line(FALSE, "HONORLOCK_CONSUMER_KEY", Placeholder("HONORLOCK_CONSUMER_KEY")),
              Line(FALSE, "HONORLOCK_SHARED_SECRET", Placeholder("HONORLOCK_SHARED_SECRET")),
              Prose("CANVAS_API_KEY"),
              Prose("HONORLOCK_CONSUMER_KEY"),
              Prose("HONORLOCK_SHARED_SECRET") >>)

\* 'pat in content' of Python: pat occurs as a contiguous run of content.
Contains(content, pat) ==
    \E i \in 1..(Len(content) - Len(pat) + 1) :
        SubSeq(content, i, i + Len(pat) - 1) = pat

HasFieldInverted(content, f) ==
    Contains(content, <<f, "=">>) /\ Contains(content, <<Placeholder(f)>>)

\* has_canvas, has_honorlock_key, has_honorlock_secret
HasField(content, f) ==
    Contains(content, <<f, "=">>) /\ ~Contains(content, <<Placeholder(f)>>)

HasFieldAnyOf(content, f) ==
    Contains(content, <<f, "=">>) \/ ~Contains(content, <<Placeholder(f)>>)

CredsWrongAll(env) ==
    /\ env.exists
    /\ \A f \in Fields : HasFieldAnyOf(env.text, f)

CredsIgnoreReadable(env) ==
    /\ env.exists
    /\ HasField(env.text, "CANVAS_API_KEY")
    /\ HasField(env.text, "HONORLOCK_CONSUMER_KEY")
    /\ HasField(env.text, "HONORLOCK_SHARED_SECRET")

\* check_env_credentials, as a function of the content of install_dir/.env
\* (NoFile when it does not exist); an exception from open() or read() is
\* caught and the answer is False.
check_env_credentials(env) ==
    /\ env.exists
    /\ env.readable
    /\ HasField(env.text, "CANVAS_API_KEY")
    /\ HasField(env.text, "HONORLOCK_CONSUMER_KEY")
    /\ HasField(env.text, "HONORLOCK_SHARED_SECRET")

\* The few texts the end-to-end runs choose from: a file with all three
\* credentials filled in, and the template with only the first one filled in.
Good ==
    Concat(<< Line(FALSE, "CANVAS_API_KEY", RealValue),
              Line(FALSE, "HONORLOCK_CONSUMER_KEY", RealValue),
              Line(FALSE, "HONORLOCK_SHARED_SECRET", RealValue) >>)

Partial ==
    Concat(<< Line(FALSE, "CANVAS_API_KEY", RealValue),
              Line(FALSE, "HONORLOCK_CONSUMER_KEY", Placeholder("HONORLOCK_CONSUMER_KEY")),
              Line(FALSE, "HONORLOCK_SHARED_SECRET", Placeholder("HONORLOCK_SHARED_SECRET")) >>)

Contents == {File(Template), File(Good), File(Partial)}
EnvOpts == {NoFile} \cup Contents

----------------------------------------------------------------------------
(* Backup names and their order *)

\* strftime("%Y%m%d-%H%M%S"): a fixed-width string of digits, most significant
\* first; here two digits in base Radix.
Strftime(t) == <<t \div Radix, t % Radix>>

Names == {Strftime(t) : t \in 0..MaxSec}

\* Python's order on strings (and on the Paths sorted() compares).
RECURSIVE LexLess(_, _)
LexLess(a, b) ==
    IF b = <<>> THEN FALSE
    ELSE IF a = <<>> THEN TRUE
    ELSE IF Head(a) # Head(b) THEN Head(a) < Head(b)
    ELSE LexLess(Tail(a), Tail(b))

RECURSIVE Insert(_, _)
Insert(x, s) ==
    IF s = <<>> THEN <<x>>
    ELSE IF LexLess(Head(s), x) THEN <<Head(s)>> \o Insert(x, Tail(s))
    ELSE <<x>> \o s

RECURSIVE SortedBody(_)
SortedBody(s) == IF s = <<>> THEN <<>> ELSE Insert(Head(s), SortedBody(Tail(s)))

Unsorted(s) == s

\* sorted(Path.home().glob("StitchKit.backup-*")), given the glob's listing
Sorted(s) == SortedBody(s)

None == <<>>

FirstBackup(listing) ==
    IF Sorted(listing) = <<>> THEN None ELSE Head(Sorted(listing))

\* backups[-1] of the sorted listing, or None when 'not backups'
latest_backup(listing) ==
    IF Sorted(listing) = <<>> THEN None
    ELSE Sorted(listing)[Len(Sorted(listing))]

\* The orders in which the directory may list a set of names.
Listings(S) ==
    {s \in [1..Cardinality(S) -> S] : \A i, j \in 1..Cardinality(S) : i # j => s[i] # s[j]}

----------------------------------------------------------------------------
(* The filesystem *)

\* ~/StitchKit: whether the directory exists, its .env, and whether it holds
\* requirements.txt and main.py.
InstDirs == [exists : {TRUE}, env : EnvOpts, req : BOOLEAN, main : BOOLEAN]
EmptyDir == [exists |-> TRUE, env |-> NoFile, req |-> FALSE, main |-> FALSE]
NoDir == [exists |-> FALSE, env |-> NoFile, req |-> FALSE, main |-> FALSE]

\* A backup directory: a moved installation, and (sub) an installation that a
\* later move put inside it.
AsBackup(d) ==
    [exists |-> TRUE, env |-> d.env, req |-> d.req, main |-> d.main, sub |-> NoDir]
NoBackup ==
    [exists |-> FALSE, env |-> NoFile, req |-> FALSE, main |-> FALSE, sub |-> NoDir]

Existing(b) == {n \in Names : b[n].exists}

InitBackupDirs ==
    [exists : {TRUE}, env : EnvOpts, req : {TRUE}, main : {TRUE}, sub : {NoDir}]

Lower(r) == IF r = "Y" THEN "y" ELSE r
Responses == {"y", "Y", "n"}

----------------------------------------------------------------------------
(* main() and run(), step by step *)

Say(es) == events' = events \cup es

ExitAlwaysZero(code) == pc' = "exit" /\ exitcode' = 0

\* run() returns, or an exception leaves it, and main() calls sys.exit(code).
Exit(code) == pc' = "exit" /\ exitcode' = code

\* A new process: __init__ clears the flags, and main() enters run().
Start ==
    /\ runs' = runs + 1
    /\ env_restored' = FALSE
    /\ env_has_credentials' = FALSE
    /\ events' = {}
    /\ inst0' = inst
    /\ backups0' = backups
    /\ exitcode' = "none"
    /\ pc' = "version"
    /\ UNCHANGED <<inst, backups, now, rc_alias, arg, ret>>

\* main(), the first time the installer is started.
Main ==
    /\ pc = "init"
    /\ Start
    /\ UNCHANGED hist

\* What is remembered of a finished run: the configuration file before and
\* after it, whether it asked about a backup and was told no, and whether it
\* launched the target app.
Remembered == {"ask_backup", "no_backup", "launch_direct", "launch_after_edit"}

\* main() again, once the first process has exited.
Rerun ==
    /\ pc = "exit"
    /\ runs = 1
    /\ Start
    /\ hist' = Append(hist, [start |-> inst0.env, end |-> inst.env,
                              events |-> events \cap Remembered])

\* sys.version_info[:2] of the interpreters tried, the floor (3, 7), and
\* Python's order on tuples.
PythonVersions == {<<2, 9>>, <<3, 6>>, <<3, 7>>, <<3, 12>>, <<4, 0>>}
MinVersion == <<3, 7>>
TupleLess(a, b) == a[1] < b[1] \/ (a[1] = b[1] /\ a[2] < b[2])

VersionWarnsOnly ==
    /\ pc = "version"
    /\ \E v \in PythonVersions :
        IF ~TupleLess(v, MinVersion)
        THEN Say({"version_ok"}) /\ pc' = "detect" /\ UNCHANGED exitcode
        ELSE Say({"version_error"}) /\ pc' = "detect" /\ UNCHANGED exitcode
    /\ UNCHANGED <<inst, backups, now, env_restored, env_has_credentials,
                   rc_alias, inst0, backups0, runs, hist, arg, ret>>

\* Step 1: check_python_version; run() returns False when it fails.
check_python_version ==
    /\ pc = "version"
    /\ \E v \in PythonVersions :
        IF ~TupleLess(v, MinVersion)
        THEN Say({"version_ok"}) /\ pc' = "detect" /\ UNCHANGED exitcode
        ELSE Say({"version_error"}) /\ Exit(1)
    /\ UNCHANGED <<inst, backups, now, env_restored, env_has_credentials,
                   rc_alias, inst0, backups0, runs, hist, arg, ret>>

BackupEvenIfDeclined ==
    /\ pc = "detect"
    /\ IF inst.exists
       THEN \E response \in Responses :
              IF Lower(response) = "y"
              THEN Say({"ask_backup", "yes_backup"}) /\ pc' = "backup"
              ELSE Say({"ask_backup", "no_backup"}) /\ pc' = "backup"
       ELSE pc' = "mkdir" /\ UNCHANGED events
    /\ UNCHANGED <<inst, backups, now, env_restored, env_has_credentials,
                   rc_alias, inst0, backups0, runs, hist, exitcode, arg, ret>>

\* Step 2: check_existing_installation, up to the answer to its prompt.
check_existing_installation ==
    /\ pc = "detect"
    /\ IF inst.exists
       THEN \E response \in Responses :
              IF Lower(response) = "y"
              THEN Say({"ask_backup", "yes_backup"}) /\ pc' = "backup"
              ELSE Say({"ask_backup", "no_backup"}) /\ pc' = "mkdir"
       ELSE pc' = "mkdir" /\ UNCHANGED events
    /\ UNCHANGED <<inst, backups, now, env_restored, env_has_credentials,
                   rc_alias, inst0, backups0, runs, hist, exitcode, arg, ret>>

\* shutil.move(src, dst) of a directory src that exists: a rename to dst, or,
\* when dst is already a directory, a rename into it (dst/StitchKit); an error
\* when that exists too.  moved: the rename itself succeeded.
MoveTarget(b, name) ==
    IF ~b[name].exists THEN "rename"
    ELSE IF ~b[name].sub.exists THEN "into"
    ELSE "error"

MovedOverwrites(b, name, d) == [b EXCEPT ![name] = AsBackup(d)]

Moved(b, name, d) ==
    IF MoveTarget(b, name) = "rename"
    THEN [b EXCEPT ![name] = AsBackup(d)]
    ELSE [b EXCEPT ![name].sub = d]

BackupIgnoresSource ==
    /\ pc = "backup"
    /\ \E t \in now..MaxSec, moved \in BOOLEAN :
        /\ now' = t
        /\ IF moved /\ MoveTarget(backups, Strftime(t)) # "error"
           THEN /\ backups' = Moved(backups, Strftime(t), inst)
                /\ inst' = NoDir
                /\ Say({"backup_created"})
                /\ pc' = "restore"
           ELSE /\ Say({"backup_failed"})
                /\ pc' = "mkdir"
                /\ UNCHANGED <<inst, backups>>
    /\ UNCHANGED <<env_restored, env_has_credentials, rc_alias, inst0, backups0, runs,
                   hist, exitcode, arg, ret>>

BackupFailRestores ==
    /\ pc = "backup"
    /\ \E t \in now..MaxSec, moved \in BOOLEAN :
        /\ now' = t
        /\ IF moved /\ inst.exists /\ MoveTarget(backups, Strftime(t)) # "error"
           THEN /\ backups' = Moved(backups, Strftime(t), inst)
                /\ inst' = NoDir
                /\ Say({"backup_created"})
                /\ pc' = "restore"
           ELSE /\ Say({"backup_failed"})
                /\ pc' = "restore"
                /\ UNCHANGED <<inst, backups>>
    /\ UNCHANGED <<env_restored, env_has_credentials, rc_alias, inst0, backups0, runs,
                   hist, exitcode, arg, ret>>

\* backup_existing, called when the user answered y.  shutil.move raises when
\* the source is not there (any more), and the except clause returns None.
backup_existing ==
    /\ pc = "backup"
    /\ \E t \in now..MaxSec, moved \in BOOLEAN :
        /\ now' = t
        /\ IF moved /\ inst.exists /\ MoveTarget(backups, Strftime(t)) # "error"
           THEN /\ backups' = Moved(backups, Strftime(t), inst)
                /\ inst' = NoDir
                /\ Say({"backup_created"})
                /\ pc' = "restore"
           ELSE /\ Say({"backup_failed"})
                /\ pc' = "mkdir"
                /\ UNCHANGED <<inst, backups>>
    /\ UNCHANGED <<env_restored, env_has_credentials, rc_alias, inst0, backups0, runs,
                   hist, exitcode, arg, ret>>

CopyEnvTruncated(d, env) ==
    IF ~d.exists THEN [EmptyDir EXCEPT !.env = File(<<>>)]
    ELSE [d EXCEPT !.env = File(<<>>)]

\* install_dir.mkdir(parents=True, exist_ok=True); shutil.copy2(backup_env, .env)
CopyEnv(d, env) == IF ~d.exists THEN [EmptyDir EXCEPT !.env = env]
                   ELSE [d EXCEPT !.env = env]

RestoreAssumesValid ==
    /\ pc = "restore"
    /\ pc' = "mkdir"
    /\ \E listing \in Listings(Existing(backups)) :
        LET latest == latest_backup(listing) IN
        IF latest = None \/ ~backups[latest].env.exists
        THEN UNCHANGED <<inst, env_restored, env_has_credentials, events>>
        ELSE \E response \in Responses :
               IF Lower(response) = "y"
               THEN /\ inst' = CopyEnv(inst, backups[latest].env)
                    /\ env_restored' = TRUE
                    /\ env_has_credentials' = TRUE
                    /\ Say({"ask_restore", "yes_restore", "restored"})
               ELSE /\ Say({"ask_restore", "no_restore"})
                    /\ UNCHANGED <<inst, env_restored, env_has_credentials>>
    /\ UNCHANGED <<backups, now, rc_alias, inst0, backups0, runs, hist, exitcode, arg, ret>>

\* restore_env_from_backup, called when backup_existing returned a directory.
restore_env_from_backup ==
    /\ pc = "restore"
    /\ pc' = "mkdir"
    /\ \E listing \in Listings(Existing(backups)) :
        LET latest == latest_backup(listing) IN
        IF latest = None \/ ~backups[latest].env.exists
        THEN UNCHANGED <<inst, env_restored, env_has_credentials, events>>
        ELSE \E response \in Responses :
               IF Lower(response) = "y"
               THEN /\ inst' = CopyEnv(inst, backups[latest].env)
                    /\ env_restored' = TRUE
                    /\ env_has_credentials' = check_env_credentials(inst'.env)
                    /\ Say({"ask_restore", "yes_restore", "restored"})
               ELSE /\ Say({"ask_restore", "no_restore"})
                    /\ UNCHANGED <<inst, env_restored, env_has_credentials>>
    /\ UNCHANGED <<backups, now, rc_alias, inst0, backups0, runs, hist, exitcode, arg, ret>>

\* Step 3: ensure the install directory exists.
ensure_install_dir ==
    /\ pc = "mkdir"
    /\ pc' = "deps"
    /\ IF ~inst.exists
       THEN inst' = EmptyDir /\ Say({"mkdir"})
       ELSE UNCHANGED <<inst, events>>
    /\ UNCHANGED <<backups, now, env_restored, env_has_credentials, rc_alias,
                   inst0, backups0, runs, hist, exitcode, arg, ret>>

DepsFatal ==
    /\ pc = "deps"
    /\ IF ~inst.req
       THEN Say({"deps_step", "no_requirements"}) /\ pc' = "setupenv"
            /\ UNCHANGED exitcode
       ELSE \E pip \in {"ok", "nonzero", "raised"} :
              IF pip = "ok"
              THEN Say({"deps_step", "pip", "deps_ok"}) /\ pc' = "setupenv"
                   /\ UNCHANGED exitcode
              ELSE Say({"deps_step", "pip", "deps_error"}) /\ Exit(1)
    /\ UNCHANGED <<inst, backups, now, env_restored, env_has_credentials,
                   rc_alias, inst0, backups0, runs, hist, arg, ret>>

\* Step 4: install_dependencies; run() only warns when it returns False.
install_dependencies ==
    /\ pc = "deps"
    /\ pc' = "setupenv"
    /\ IF ~inst.req
       THEN Say({"deps_step", "no_requirements"})
       ELSE \E pip \in {"ok", "nonzero", "raised"} :
              IF pip = "ok"
              THEN Say({"deps_step", "pip", "deps_ok"})
              ELSE Say({"deps_step", "pip", "deps_error", "deps_warning"})
    /\ UNCHANGED <<inst, backups, now, env_restored, env_has_credentials,
                   rc_alias, inst0, backups0, runs, hist, exitcode, arg, ret>>

\* create_basic_env: writes the template to install_dir/.env.
create_basic_env(d) == [d EXCEPT !.env = File(Template)]

SetupAlways ==
    /\ pc = "setupenv"
    /\ pc' = "alias"
    /\ IF env_restored /\ inst.env.exists
       THEN UNCHANGED <<inst, events>>
       ELSE inst' = create_basic_env(inst) /\ Say({"materialized"})
    /\ UNCHANGED <<backups, now, env_restored, env_has_credentials, rc_alias,
                   inst0, backups0, runs, hist, exitcode, arg, ret>>

SetupInverted ==
    /\ pc = "setupenv"
    /\ pc' = "alias"
    /\ IF env_restored /\ inst.env.exists
       THEN UNCHANGED <<inst, events>>
       ELSE IF inst.env.exists
            THEN inst' = create_basic_env(inst) /\ Say({"materialized"})
            ELSE UNCHANGED <<inst, events>>
    /\ UNCHANGED <<backups, now, env_restored, env_has_credentials, rc_alias,
                   inst0, backups0, runs, hist, exitcode, arg, ret>>

SetupOverwritesRestored ==
    /\ pc = "setupenv"
    /\ pc' = "alias"
    /\ inst' = create_basic_env(inst)
    /\ Say({"materialized"})
    /\ UNCHANGED <<backups, now, env_restored, env_has_credentials, rc_alias,
                   inst0, backups0, runs, hist, exitcode, arg, ret>>

\* Step 5: setup_environment (it always returns True).
setup_environment ==
    /\ pc = "setupenv"
    /\ pc' = "alias"
    /\ IF env_restored /\ inst.env.exists
       THEN UNCHANGED <<inst, events>>
       ELSE IF ~inst.env.exists
            THEN inst' = create_basic_env(inst) /\ Say({"materialized"})
            ELSE UNCHANGED <<inst, events>>
    /\ UNCHANGED <<backups, now, env_restored, env_has_credentials, rc_alias,
                   inst0, backups0, runs, hist, exitcode, arg, ret>>

\* Step 6: create_alias; any error is caught and warned about.
create_alias ==
    /\ pc = "alias"
    /\ pc' = "evaluate"
    /\ IF rc_alias
       THEN Say({"alias_exists"}) /\ UNCHANGED rc_alias
       ELSE \E written \in BOOLEAN :
              IF written
              THEN rc_alias' = TRUE /\ Say({"alias_written"})
              ELSE Say({"alias_warning"}) /\ UNCHANGED rc_alias
    /\ UNCHANGED <<inst, backups, now, env_restored, env_has_credentials,
                   inst0, backups0, runs, hist, exitcode, arg, ret>>

EvaluateNoRecheck ==
    /\ pc = "evaluate"
    /\ IF env_has_credentials
       THEN Say({"ready"}) /\ pc' = "launch_direct"
       ELSE Say({"need_credentials"}) /\ pc' = "ask_configure"
    /\ UNCHANGED <<inst, backups, now, env_restored, env_has_credentials, rc_alias,
                   inst0, backups0, runs, hist, exitcode, arg, ret>>

\* Step 7, first part: re-check the credentials unless the flag is already
\* set, then branch on the flag.
evaluate_credentials ==
    /\ pc = "evaluate"
    /\ env_has_credentials' =
          IF ~env_has_credentials THEN check_env_credentials(inst.env)
          ELSE env_has_credentials
    /\ IF env_has_credentials'
       THEN Say({"ready"}) /\ pc' = "launch_direct"
       ELSE Say({"need_credentials"}) /\ pc' = "ask_configure"
    /\ UNCHANGED <<inst, backups, now, env_restored, rc_alias, inst0, backups0, runs,
                   hist, exitcode, arg, ret>>

\* os.chdir(install_dir); subprocess.call([sys.executable, 'main.py']) inside
\* try/except Exception.  Either call may raise; otherwise the interpreter
\* runs and its return code is dropped: with no main.py in the directory it
\* cannot open the entry point and the target app never starts.
Launch(site) ==
    /\ pc = site
    /\ \E raised \in BOOLEAN :
        IF raised
        THEN Say({site, "launch_error", "manual"})
        ELSE IF inst.main
             THEN Say({site, "app_ran"})
             ELSE Say({site, "app_not_started"})
    /\ Exit(0)
    /\ UNCHANGED <<inst, backups, now, env_restored, env_has_credentials,
                   rc_alias, inst0, backups0, runs, hist, arg, ret>>

launch_direct == Launch("launch_direct")

\* The prompt "Would you like to configure them now?"
ask_configure ==
    /\ pc = "ask_configure"
    /\ \E response \in Responses :
        IF Lower(response) = "y"
        THEN Say({"ask_configure", "yes_configure"}) /\ pc' = "guide"
             /\ UNCHANGED exitcode
        ELSE Say({"ask_configure", "no_configure", "manual"}) /\ Exit(0)
    /\ UNCHANGED <<inst, backups, now, env_restored, env_has_credentials,
                   rc_alias, inst0, backups0, runs, hist, arg, ret>>

GuideNoRecheck ==
    /\ pc = "guide"
    /\ pc' = "after_guide"
    /\ \E editor \in {"nano", "vi", "none"} :
        IF editor = "none"
        THEN /\ Say({"no_editor"})
             /\ UNCHANGED <<inst, env_has_credentials>>
        ELSE \E saved \in Contents \cup {inst.env} :
               /\ inst' = [inst EXCEPT !.env = saved]
               /\ UNCHANGED env_has_credentials
               /\ Say({"editor", IF check_env_credentials(saved)
                                 THEN "configured" ELSE "still_missing"})
    /\ UNCHANGED <<backups, now, env_restored, rc_alias, inst0, backups0, runs, hist,
                   exitcode, arg, ret>>

\* guide_env_setup: nano, else vi, else an error and an early return; after
\* the editor returns, the credentials are checked again.  The editor leaves
\* the file as it was or saves any of the texts.
guide_env_setup ==
    /\ pc = "guide"
    /\ pc' = "after_guide"
    /\ \E editor \in {"nano", "vi", "none"} :
        IF editor = "none"
        THEN /\ Say({"no_editor"})
             /\ UNCHANGED <<inst, env_has_credentials>>
        ELSE \E saved \in Contents \cup {inst.env} :
               /\ inst' = [inst EXCEPT !.env = saved]
               /\ env_has_credentials' = check_env_credentials(saved)
               /\ Say({"editor", IF check_env_credentials(saved)
                                 THEN "configured" ELSE "still_missing"})
    /\ UNCHANGED <<backups, now, env_restored, rc_alias, inst0, backups0, runs, hist,
                   exitcode, arg, ret>>

\* Back in run(): launch if the flag is now set, else the manual steps.
after_guide ==
    /\ pc = "after_guide"
    /\ IF env_has_credentials
       THEN pc' = "launch_after_edit" /\ UNCHANGED <<events, exitcode>>
       ELSE Say({"manual"}) /\ Exit(0)
    /\ UNCHANGED <<inst, backups, now, env_restored, env_has_credentials,
                   rc_alias, inst0, backups0, runs, hist, arg, ret>>

launch_after_edit == Launch("launch_after_edit")

----------------------------------------------------------------------------
(* The installer on a home directory *)

InitBackups ==
    {b \in [Names -> {NoBackup} \cup InitBackupDirs] :
        Cardinality(Existing(b)) <= MaxInitBackups}

Init ==
    /\ pc = "init"
    /\ inst \in {NoDir} \cup InstDirs
    /\ backups \in InitBackups
    /\ now = 0
    /\ env_restored = FALSE
    /\ env_has_credentials = FALSE
    /\ rc_alias \in BOOLEAN
    /\ events = {}
    /\ inst0 = inst
    /\ backups0 = backups
    /\ runs = 0
    /\ hist = <<>>
    /\ exitcode = "none"
    /\ arg = None
    /\ ret = None

Next ==
    \/ Main
    \/ check_python_version
    \/ check_existing_installation
    \/ backup_existing
    \/ restore_env_from_backup
    \/ ensure_install_dir
    \/ install_dependencies
    \/ setup_environment
    \/ create_alias
    \/ evaluate_credentials
    \/ launch_direct
    \/ ask_configure
    \/ guide_env_setup
    \/ after_guide
    \/ launch_after_edit

Spec == Init /\ [][Next]_vars

\* The installer run twice in succession on an installation whose
\* configuration file is complete.
InitTwice ==
    /\ Init
    /\ inst.exists
    /\ check_env_credentials(inst.env)
    /\ Existing(backups) = {}

NextTwice == Next \/ Rerun

SpecTwice == InitTwice /\ [][NextTwice]_vars

----------------------------------------------------------------------------
(* Runs that are interrupted or hit an error nothing catches *)

InRun ==
    pc \in {"version", "detect", "backup", "restore", "mkdir", "deps", "setupenv",
            "alias", "evaluate", "launch_direct", "ask_configure", "guide",
            "after_guide", "launch_after_edit"}

\* KeyboardInterrupt (Ctrl-C) anywhere in run(): no 'except Exception' catches
\* it, main() prints the cancellation and exits 1.
interrupt ==
    /\ InRun
    /\ Say({"cancelled"})
    /\ Exit(1)
    /\ UNCHANGED <<inst, backups, now, env_restored, env_has_credentials,
                   rc_alias, inst0, backups0, runs, hist, arg, ret>>

\* The calls of run() outside any try: input() at the four prompts (EOFError),
\* mkdir and copy2 of the restore, mkdir of step 3, the write of the template.
RaisesHere ==
    \/ pc = "detect" /\ inst.exists
    \/ pc = "restore" /\ \E listing \in Listings(Existing(backups)) :
                             /\ latest_backup(listing) # None
                             /\ backups[latest_backup(listing)].env.exists
    \/ pc = "mkdir" /\ ~inst.exists
    \/ pc = "setupenv" /\ ~inst.env.exists
    \/ pc \in {"ask_configure", "guide"}

\* An exception that leaves run(): main() prints it and exits 1.  In the
\* restore the directory may already have been made when copy2 fails.
unhandled_error ==
    /\ RaisesHere
    /\ \E made \in BOOLEAN :
         inst' = IF made /\ pc = "restore" /\ ~inst.exists THEN EmptyDir ELSE inst
    /\ Say({"unhandled_error"})
    /\ Exit(1)
    /\ UNCHANGED <<backups, now, env_restored, env_has_credentials,
                   rc_alias, inst0, backups0, runs, hist, arg, ret>>

NextFaults == Next \/ interrupt \/ unhandled_error

SpecFaults == Init /\ [][NextFaults]_vars

----------------------------------------------------------------------------
(* The credential check on its own: any small configuration file *)

RECURSIVE LineSets(_)
LineSets(k) ==
    IF k = 0 THEN {{}}
    ELSE LineSets(k - 1) \cup {s \cup {l} : s \in LineSets(k - 1), l \in Lines}

RECURSIVE InSomeOrder(_)
InSomeOrder(S) ==
    IF S = {} THEN <<>>
    ELSE LET l == CHOOSE x \in S : TRUE IN <<l>> \o InSomeOrder(S \ {l})

\* The installation holds a file made of the lines in arg, or no file.
InitCred ==
    /\ pc = "cred_in"
    /\ arg \in LineSets(MaxLines)
    /\ \E exists \in BOOLEAN :
         inst = [EmptyDir EXCEPT !.env =
                    IF exists THEN File(Concat(InSomeOrder(arg))) ELSE NoFile]
    /\ ~inst.env.exists => arg = {}
    /\ backups = [n \in Names |-> NoBackup]
    /\ now = 0
    /\ env_restored = FALSE
    /\ env_has_credentials = FALSE
    /\ rc_alias = FALSE
    /\ events = {}
    /\ inst0 = inst
    /\ backups0 = backups
    /\ runs = 0
    /\ hist = <<>>
    /\ exitcode = "none"
    /\ ret = None

\* self.env_has_credentials = self.check_env_credentials()
CredCheck ==
    /\ pc = "cred_in"
    /\ pc' = "cred_out"
    /\ ret' = check_env_credentials(inst.env)
    /\ env_has_credentials' = ret'
    /\ UNCHANGED <<inst, backups, now, env_restored, rc_alias, events, inst0,
                   backups0, runs, hist, exitcode, arg>>

NextCred == CredCheck

SpecCred == InitCred /\ [][NextCred]_vars

----------------------------------------------------------------------------
(* The latest-backup lookup on its own: any set of backups *)

AnyBackups == [Names -> {NoBackup} \cup InitBackupDirs]

InitLatest ==
    /\ pc = "latest_in"
    /\ inst = NoDir
    /\ backups \in AnyBackups
    /\ now = 0
    /\ env_restored = FALSE
    /\ env_has_credentials = FALSE
    /\ rc_alias = FALSE
    /\ events = {}
    /\ inst0 = inst
    /\ backups0 = backups
    /\ runs = 0
    /\ hist = <<>>
    /\ exitcode = "none"
    /\ arg = None
    /\ ret = None

\* The lookup at the head of restore_env_from_backup, for a listing in any
\* order; the restore itself follows.
LatestLookup ==
    /\ pc = "latest_in"
    /\ pc' = "restore"
    /\ \E listing \in Listings(Existing(backups)) :
         /\ arg' = listing
         /\ ret' = latest_backup(listing)
    /\ UNCHANGED <<inst, backups, now, env_restored, env_has_credentials,
                   rc_alias, events, inst0, backups0, runs, hist, exitcode>>

NextLatest == LatestLookup \/ restore_env_from_backup

SpecLatest == InitLatest /\ [][NextLatest]_vars

----------------------------------------------------------------------------
(* backup_existing on its own: the install directory may be missing *)

InitBackup ==
    /\ pc = "backup"
    /\ inst \in {NoDir} \cup InstDirs
    /\ backups \in InitBackups
    /\ now = 0
    /\ env_restored = FALSE
    /\ env_has_credentials = FALSE
    /\ rc_alias = FALSE
    /\ events = {}
    /\ inst0 = inst
    /\ backups0 = backups
    /\ runs = 0
    /\ hist = <<>>
    /\ exitcode = "none"
    /\ arg = None
    /\ ret = None

NextBackup == backup_existing

SpecBackup == InitBackup /\ [][NextBackup]_vars

----------------------------------------------------------------------------
(* Step 7 on its own: the .env may be one that cannot be read *)

EnvAtCheck == EnvOpts \cup {Unreadable(Good), Unreadable(Partial)}

InitCheck ==
    /\ pc = "evaluate"
    /\ \E env \in EnvAtCheck, req \in BOOLEAN, main \in BOOLEAN :
         inst = [exists |-> TRUE, env |-> env, req |-> req, main |-> main]
    /\ backups = [n \in Names |-> NoBackup]
    /\ now = 0
    /\ env_restored \in BOOLEAN
    /\ env_has_credentials = FALSE
    /\ rc_alias = TRUE
    /\ events = {}
    /\ inst0 = inst
    /\ backups0 = backups
    /\ runs = 1
    /\ hist = <<>>
    /\ exitcode = "none"
    /\ arg = None
    /\ ret = None

NextCheck ==
    \/ evaluate_credentials
    \/ launch_direct
    \/ ask_configure
    \/ guide_env_setup
    \/ after_guide
    \/ launch_after_edit

SpecCheck == InitCheck /\ [][NextCheck]_vars

----------------------------------------------------------------------------
(* C1: the credential check *)

\* The field is an assignment of the file (not a comment) whose value is not
\* the field's placeholder.
FieldFilledIn(lines, f) ==
    \E l \in lines : ~l.cmt /\ l.eq /\ l.key = f /\ l.val # Placeholder(f)

\* The text "FIELD=" occurs somewhere, and the placeholder text nowhere.
FieldTextOk(lines, f) ==
    /\ \E l \in lines : l.eq /\ l.key = f
    /\ \A l \in lines : l.val # Placeholder(f)

\* C1 as stated: the check returns true exactly when each of the three
\* required keys is present with a non-placeholder value.
C1_AsStated ==
    pc = "cred_out" =>
        (ret <=> (inst.env.exists /\ \A f \in Fields : FieldFilledIn(arg, f)))

\* C1 amended: the check returns true exactly when the file exists and, for
\* each required field, the text "FIELD=" occurs anywhere in it (a comment
\* included) and the field's placeholder literal occurs nowhere in it.
C1_SubstringCheck ==
    pc = "cred_out" =>
        (ret <=> (inst.env.exists /\ \A f \in Fields : FieldTextOk(arg, f)))

\* A file with the three keys filled in that still holds a placeholder
\* literal on a comment line, and is therefore judged incomplete.
C1_Witness ==
    /\ pc = "cred_out"
    /\ ret = FALSE
    /\ \A f \in Fields : FieldFilledIn(arg, f)
    /\ \E l \in arg : l.cmt /\ l.val # RealValue

----------------------------------------------------------------------------
(* C6: the latest-backup lookup *)

Latest(S) == CHOOSE t \in S : \A u \in S : u <= t

Stamps(b) == {t \in 0..MaxSec : b[Strftime(t)].exists}

\* C6: for a non-empty set of timestamped backups, listed in any order, the
\* lookup returns the one with the latest timestamp, which is the last in
\* lexicographic order; with no backup it returns None, and the restore
\* step then asks nothing and restores nothing.
C6_LatestBackup ==
    pc \in {"restore", "mkdir"} =>
        /\ Stamps(backups) # {} =>
              /\ ret = Strftime(Latest(Stamps(backups)))
              /\ \A n \in Existing(backups) : ~LexLess(ret, n)
        /\ Stamps(backups) = {} =>
              /\ ret = None
              /\ pc = "mkdir" => events = {} /\ inst = NoDir /\ ~env_restored

\* Three backups T1 < T2 < T3 listed with T3 first: T3 is returned.
C6_Witness ==
    /\ pc = "restore"
    /\ Len(arg) = 3
    /\ LexLess(arg[2], arg[3]) /\ LexLess(arg[3], arg[1])
    /\ ret = arg[1]

----------------------------------------------------------------------------
(* What the claims speak of *)

\* A configuration is complete when each required field has its "FIELD="
\* text and none of their placeholder literals is left in it.
IsComplete(env) ==
    /\ env.exists
    /\ \A f \in Fields :
         /\ Contains(env.text, <<f, "=">>)
         /\ ~Contains(env.text, <<Placeholder(f)>>)

\* The name that is last in lexicographic order among the backups in b.
LastName(b) == CHOOSE n \in Existing(b) : \A m \in Existing(b) : ~LexLess(n, m)

AtLaunch == pc \in {"launch_direct", "launch_after_edit"}
Launched == "launch_direct" \in events \/ "launch_after_edit" \in events

----------------------------------------------------------------------------
(* C2: launch only with a complete configuration *)

\* C2: whenever the launch subprocess is about to be started, install_dir/.env
\* exists and is complete.
C2_LaunchOnlyIfComplete ==
    AtLaunch => inst.exists /\ inst.env.exists /\ IsComplete(inst.env)

\* The launch is reached on the flag set during a restore, the final re-check
\* having been skipped.
C2_Witness ==
    /\ pc = "launch_direct"
    /\ env_restored
    /\ IsComplete(inst.env)

----------------------------------------------------------------------------
(* C3: scenario C *)

ScenarioC ==
    /\ pc = "exit"
    /\ inst0.exists
    /\ "yes_backup" \in events
    /\ "yes_restore" \in events

CompleteBefore == {n \in Existing(backups0) : IsComplete(backups0[n].env)}

\* C3 as stated: with the install directory present, backup accepted, some
\* backup of an earlier run holding a complete configuration file and restore
\* accepted, the restored file is a copy of that backup's file, the check is
\* true and the run reaches LAUNCHED.
C3_AsStated ==
    (ScenarioC /\ CompleteBefore # {}) =>
        /\ \E n \in CompleteBefore : inst.env = backups0[n].env
        /\ env_has_credentials
        /\ "launch_direct" \in events

\* C3 amended: the same, when the complete configuration file is that of the
\* backup last in lexicographic order among all backups present once this
\* run's backup is made.
C3_RestoreLatestComplete ==
    (ScenarioC /\ IsComplete(backups[LastName(backups)].env)) =>
        /\ inst.env = backups[LastName(backups)].env
        /\ env_has_credentials
        /\ "launch_direct" \in events
        /\ "ask_configure" \notin events

\* Scenario C with the configuration coming from a backup of an earlier run.
C3_Witness ==
    /\ ScenarioC
    /\ LastName(backups) \in CompleteBefore
    /\ backups[LastName(backups)] = backups0[LastName(backups)]
    /\ ~IsComplete(inst0.env)
    /\ "launch_direct" \in events

----------------------------------------------------------------------------
(* C4: two runs on a complete installation *)

TwoRunsDone == pc = "exit" /\ runs = 2

\* C4 as stated: neither of two successive runs on an installation with a
\* complete configuration file prompts for backup, both reach LAUNCHED, and
\* the configuration file is left as it was.
C4_AsStated ==
    TwoRunsDone =>
        /\ "ask_backup" \notin events
        /\ "ask_backup" \notin hist[1].events
        /\ "launch_direct" \in events
        /\ "launch_direct" \in hist[1].events
        /\ inst.env = hist[1].start

\* C4 amended: each of the two runs prompts for backup; when the user
\* declines both times, both runs reach LAUNCHED and the configuration file
\* is left as it was.
C4_TwiceDeclined ==
    (TwoRunsDone /\ "no_backup" \in events /\ "no_backup" \in hist[1].events) =>
        /\ "ask_backup" \in events
        /\ "ask_backup" \in hist[1].events
        /\ "launch_direct" \in events
        /\ "launch_direct" \in hist[1].events
        /\ hist[1].end = hist[1].start
        /\ inst0.env = hist[1].start
        /\ inst.env = hist[1].start

\* Two runs finished, backup declined in both, the app launched in the second.
C4_Witness ==
    /\ TwoRunsDone
    /\ "no_backup" \in events
    /\ "no_backup" \in hist[1].events
    /\ "launch_direct" \in events
    /\ IsComplete(inst.env)

----------------------------------------------------------------------------
(* C5: the restore copies from the latest backup *)

\* C5: right after a restore, install_dir/.env is the configuration file of
\* the backup whose name is last in lexicographic order among all backups
\* present, whether or not this run made it.
C5_RestoreFromLatest ==
    (pc = "mkdir" /\ "restored" \in events) =>
        /\ Existing(backups) # {}
        /\ inst.env = backups[LastName(backups)].env

\* A restore from a backup this run did not make: it was there before, under a
\* later name than the one just made, and holds another configuration.
C5_Witness ==
    /\ pc = "mkdir"
    /\ "restored" \in events
    /\ backups0[LastName(backups)].exists
    /\ Cardinality(Existing(backups)) = Cardinality(Existing(backups0)) + 1
    /\ inst.env # inst0.env

----------------------------------------------------------------------------
(* C7: the ensure-config step leaves an existing file alone *)

\* C7: setup_environment never changes a configuration file that exists, and
\* what it writes when there is none is the template.
C7_SetupKeepsExisting ==
    [][pc = "setupenv" =>
         /\ inst.env.exists => inst'.env = inst.env
         /\ inst'.env # inst.env => ~inst.env.exists /\ inst'.env = File(Template)
         /\ inst'.req = inst.req /\ inst'.main = inst.main]_vars

\* After the step: a file with content of its own that was there before the
\* run, not restored, and not replaced by the template.
C7_Witness ==
    /\ pc = "alias"
    /\ ~env_restored
    /\ inst.env = inst0.env
    /\ inst.env.exists
    /\ inst.env # File(Template)
    /\ "materialized" \notin events

----------------------------------------------------------------------------
(* C8: scenario A *)

AfterEvaluate ==
    pc \in {"launch_direct", "ask_configure", "guide", "after_guide",
            "launch_after_edit", "exit"}

\* C8: a run that starts with no install directory creates it, invokes the
\* dependency step, writes the placeholder template without asking about a
\* backup, and finds the credentials incomplete; if the user then declines
\* the edit, the run ends with the manual instructions and no launch.
C8_ScenarioA ==
    (~inst0.exists /\ "version_ok" \in events) =>
        /\ "ask_backup" \notin events
        /\ AfterEvaluate =>
              /\ {"mkdir", "deps_step", "materialized", "need_credentials"}
                    \subseteq events
              /\ "ready" \notin events
              /\ "launch_direct" \notin events
        /\ (pc = "exit" /\ "no_configure" \in events) =>
              /\ inst.env = File(Template)
              /\ ~IsComplete(inst.env)
              /\ ~env_has_credentials
              /\ "manual" \in events
              /\ ~Launched
              /\ exitcode = 0

\* Scenario A run to its end.
C8_Witness ==
    /\ pc = "exit"
    /\ ~inst0.exists
    /\ "no_configure" \in events
    /\ "manual" \in events
    /\ inst.env = File(Template)

----------------------------------------------------------------------------
(* C9: scenario B *)

\* C9: with an install directory whose configuration file is complete and
\* the backup declined, the run writes no template, finds the credentials
\* complete and reaches LAUNCHED without offering the edit.
C9_ScenarioB ==
    (pc = "exit" /\ inst0.exists /\ IsComplete(inst0.env)
                 /\ "no_backup" \in events) =>
        /\ "materialized" \notin events
        /\ "ready" \in events
        /\ "launch_direct" \in events
        /\ "ask_configure" \notin events
        /\ inst.env = inst0.env

\* Scenario B run to its end.
C9_Witness ==
    /\ pc = "exit"
    /\ inst0.exists
    /\ IsComplete(inst0.env)
    /\ "no_backup" \in events
    /\ "launch_direct" \in events
    /\ "app_ran" \in events

----------------------------------------------------------------------------
(* C10: a launch that fails *)

\* C10: whenever a launch was attempted and the target app did not start,
\* at either launch site, the error was reported and the manual instructions
\* were shown.
C10_LaunchFailureFallsBack ==
    (pc = "exit" /\ Launched /\ "app_ran" \notin events) =>
        /\ "launch_error" \in events
        /\ "manual" \in events

----------------------------------------------------------------------------
(* C11: the exit code *)

Fatal == {"version_error", "unhandled_error", "cancelled"}

\* C11: a finished run exits with 1 exactly when the version check failed, an
\* error left run() or the user cancelled; it exits with 0 exactly when it
\* ended, without any of those, with the launch or the manual instructions.
C11_ExitCode ==
    pc = "exit" =>
        /\ exitcode \in {0, 1}
        /\ exitcode = 1 <=> events \cap Fatal # {}
        /\ exitcode = 0 <=> (events \cap Fatal = {} /\ (Launched \/ "manual" \in events))

\* A run cancelled after it had made a backup: exit 1.
C11_Witness ==
    /\ pc = "exit"
    /\ exitcode = 1
    /\ "cancelled" \in events
    /\ "backup_created" \in events

----------------------------------------------------------------------------
(* C12: a declined backup *)

\* C12: once the user has declined the backup, no backup is made, no restore
\* is offered, the install directory stays where it is with what it held, and
\* its configuration file, if it had one, is as it was until the user edits it.
C12_DeclineLeavesInstallation ==
    "no_backup" \in events =>
        /\ backups = backups0
        /\ events \cap {"backup_created", "backup_failed", "ask_restore",
                        "restored", "mkdir"} = {}
        /\ inst.exists /\ inst.req = inst0.req /\ inst.main = inst0.main
        /\ ~env_restored
        /\ (inst0.env.exists /\ "editor" \notin events) =>
              inst.env = inst0.env /\ "materialized" \notin events

\* A run to its end on an installation with an incomplete file of its own,
\* backup declined, with a backup lying around that was not offered.
C12_Witness ==
    /\ pc = "exit"
    /\ "no_backup" \in events
    /\ inst0.env = File(Partial)
    /\ inst.env = inst0.env
    /\ \E n \in Names : backups[n].exists /\ backups[n].env.exists

----------------------------------------------------------------------------
(* C13: what a successful backup leaves behind *)

\* C13: when backup_existing has reported success, nothing is left at the
\* install path and the directory it returned, named after the second of the
\* move, holds exactly what the installation held, its .env included.
C13_BackupHoldsInstallation ==
    (pc = "restore" /\ "backup_created" \in events) =>
        /\ ~inst.exists
        /\ backups[Strftime(now)] = AsBackup(inst0)

----------------------------------------------------------------------------
(* C14: a backup of nothing *)

\* C14: backup_existing called when no install directory is there returns
\* None (its failure branch: the restore is not entered), lets no exception
\* out, and leaves the install path and every backup as they were.
C14_MissingSource ==
    [][(pc = "backup" /\ ~inst.exists) =>
          /\ pc' = "mkdir"
          /\ "backup_failed" \in events' /\ "backup_created" \notin events'
          /\ inst' = inst
          /\ backups' = backups
          /\ exitcode' = exitcode]_vars

C14_Witness ==
    /\ pc = "mkdir"
    /\ ~inst0.exists /\ ~inst.exists
    /\ "backup_failed" \in events
    /\ Existing(backups) # {}
    /\ backups = backups0

----------------------------------------------------------------------------
(* C15: backups stay *)

----------------------------------------------------------------------------
(* C16: a configuration file that is missing or cannot be read *)

CannotRead(env) == ~env.exists \/ ~env.readable

\* C16: when install_dir/.env is missing or cannot be read, the check of
\* step 7 sets the flag to false and the run goes on to the prompt to
\* configure, as it does for an incomplete file, with nothing reported as an
\* error and no exit; the same holds for the check made after the editor
\* returns.
C16_MissingOrUnreadable ==
    [][/\ (pc = "evaluate" /\ ~env_has_credentials /\ CannotRead(inst.env)) =>
             /\ ~env_has_credentials'
             /\ pc' = "ask_configure"
             /\ events' = events \cup {"need_credentials"}
             /\ exitcode' = exitcode
             /\ inst' = inst
       /\ (pc = "guide" /\ "editor" \in events' /\ CannotRead(inst'.env)) =>
             /\ ~env_has_credentials'
             /\ pc' = "after_guide"
             /\ events' = events \cup {"editor", "still_missing"}
             /\ exitcode' = exitcode]_vars

\* A run that found a file with all three credentials in it that it could
\* not read, and ended with the manual instructions.
C16_Witness ==
    /\ pc = "exit"
    /\ inst0.env = Unreadable(Good)
    /\ inst.env = inst0.env
    /\ "still_missing" \in events
    /\ "manual" \in events
    /\ exitcode = 0

----------------------------------------------------------------------------
(* C17: the dependency step *)

DepsOutcomes == {"no_requirements", "deps_ok", "deps_error"}

\* C17: whatever the dependency step meets (no requirements.txt, pip
\* succeeding, pip failing or raising), it goes on to the configuration step,
\* sets no exit code and leaves everything the later steps decide on (the
\* install directory, the backups, the two flags) as it found it; and a run
\* that went through it ends with exit code 0 in a launch or the manual
\* instructions.
C17_DepsNeverFatal ==
    [][/\ pc = "deps" =>
             /\ pc' = "setupenv"
             /\ events' \cap DepsOutcomes # {}
             /\ exitcode' = exitcode
             /\ inst' = inst /\ backups' = backups
             /\ env_restored' = env_restored
             /\ env_has_credentials' = env_has_credentials
       /\ (pc' = "exit" /\ "deps_step" \in events') =>
             /\ exitcode' = 0
             /\ Launched' \/ "manual" \in events']_vars

\* pip failed and the run went on to launch the app.
C17_Witness ==
    /\ pc = "exit"
    /\ "deps_error" \in events
    /\ "deps_warning" \in events
    /\ "launch_direct" \in events
    /\ "app_ran" \in events
    /\ exitcode = 0

----------------------------------------------------------------------------
(* C18: after the interactive edit *)

\* C18: in a run that ended after the user agreed to configure, if an editor
\* ran then the check of the file as the editor left it decides: true, and
\* the app was launched after the edit; false, and nothing was launched and
\* the manual instructions were shown.  If no editor was found, that was
\* reported, nothing was launched, the manual instructions were shown and the
\* exit code is 0.
C18_RecheckDecides ==
    (pc = "exit" /\ "yes_configure" \in events) =>
        /\ "editor" \in events \/ "no_editor" \in events
        /\ ("editor" \in events /\ check_env_credentials(inst.env)) =>
              /\ "launch_after_edit" \in events
              /\ "configured" \in events
        /\ ("editor" \in events /\ ~check_env_credentials(inst.env)) =>
              /\ ~Launched
              /\ "manual" \in events
              /\ "still_missing" \in events
        /\ "no_editor" \in events =>
              /\ ~Launched
              /\ "manual" \in events
              /\ ~check_env_credentials(inst.env)
        /\ exitcode = 0

\* The user filled the template in in the editor and the app was launched.
C18_Witness ==
    /\ pc = "exit"
    /\ "materialized" \in events
    /\ "yes_configure" \in events
    /\ "editor" \in events
    /\ check_env_credentials(inst.env)
    /\ "launch_after_edit" \in events
    /\ "app_ran" \in events

----------------------------------------------------------------------------
(* C19: a backup that fails *)

AfterBackup ==
    {"mkdir", "deps", "setupenv", "alias", "evaluate", "launch_direct",
     "ask_configure", "guide", "after_guide", "launch_after_edit", "exit"}

\* C19: once an accepted backup has failed, the failure has been reported, the
\* run is at or past the step that ensures the install directory, no restore
\* is ever offered, the installation and the backups are where they were, no
\* failure exit happens, and a run that has ended went through the dependency
\* step and ended with exit code 0 in a launch or the manual instructions.
C19_FailedBackup ==
    "backup_failed" \in events =>
        /\ "yes_backup" \in events
        /\ events \cap {"backup_created", "ask_restore", "restored", "mkdir"} = {}
        /\ pc \in AfterBackup
        /\ backups = backups0
        /\ inst.exists /\ ~env_restored
        /\ pc # "exit" => exitcode = "none"
        /\ pc = "exit" =>
              /\ exitcode = 0
              /\ "deps_step" \in events
              /\ Launched \/ "manual" \in events

\* The backup failed with an earlier backup's .env available, and the run
\* ended by launching on the installation's own complete file.
C19_Witness ==
    /\ pc = "exit"
    /\ "backup_failed" \in events
    /\ \E n \in Names : backups[n].exists /\ backups[n].env.exists
    /\ inst.env = inst0.env
    /\ "launch_direct" \in events
    /\ exitcode = 0

----------------------------------------------------------------------------
(* C20: an interpreter below the floor *)

\* C20: once the version check has failed, the run is over with exit code 1
\* and the failure is all that happened: no prompt, no backup, no restore, no
\* directory or .env created or changed, no dependency step, no alias, no
\* launch.
C20_VersionAbort ==
    "version_error" \in events =>
        /\ events = {"version_error"}
        /\ pc = "exit"
        /\ exitcode = 1
        /\ inst = inst0
        /\ backups = backups0
        /\ ~env_restored /\ ~env_has_credentials

\* The failed check, on a home directory with an installation, a backup and
\* no alias yet.
C20_Witness ==
    /\ pc = "exit"
    /\ "version_error" \in events
    /\ inst.exists /\ inst.env.exists
    /\ Existing(backups) # {}
    /\ ~rc_alias

----------------------------------------------------------------------------
(* C21: the flag at the launch decision *)

\* Where run() has just branched on env_has_credentials: after step 7's
\* check, and after guide_env_setup has returned.
AtDecision ==
    pc \in {"launch_direct", "ask_configure", "after_guide", "launch_after_edit"}

\* C21: wherever run() branches on env_has_credentials, the flag is what
\* check_env_credentials would return on install_dir/.env as it is then; this
\* includes the runs where restore set the flag and step 7 did not check
\* again.
C21_FlagNotStale ==
    AtDecision => env_has_credentials = check_env_credentials(inst.env)

\* The flag was set by the restore of a complete file, and step 7 branched to
\* the launch on it.
C21_Witness ==
    /\ pc = "launch_direct"
    /\ "restored" \in events
    /\ env_restored
    /\ env_has_credentials
    /\ "materialized" \notin events
    /\ check_env_credentials(inst.env)

====
